---- MODULE Spec2Model ----
(***************************************************************************)
(* shelgon: the REPL engine of src/src/renderer.rs (App::execute, the      *)
(* driving loop; App::input, the key handler; the helpers it calls) driven *)
(* against an implementation of the command::Execute trait of              *)
(* src/src/command.rs.                                                     *)
(*                                                                         *)
(* A Rust String is modelled as the sequence of its UTF-8 bytes, because   *)
(* the code indexes strings by byte (String::insert, String::remove,       *)
(* str::split_at, slicing) and these panic off a character boundary.       *)
(* An Option<T> is a sequence of length 0 (None) or 1 (Some).              *)
(***************************************************************************)
EXTENDS Integers, Sequences, FiniteSets, TLC

VARIABLES
    pc,         \* position in App::execute: start, loop, read, restore, done, panicked
    state,      \* App.state: Idle(cmd, cursor, comp) or Running(prep, stdin)
    context,    \* App.context
    history,    \* App.history
    term,       \* the terminal: raw mode, alternate screen, cursor shown
    next,       \* what App::input returned in the last loop iteration
    calls,      \* the Execute-trait calls App::input made in it, in order
    exitBy,     \* how the driving loop was left
    response,   \* what App::execute returns
    event       \* the event App::input handled since the last draw, if any

vars ==
    <<pc, state, context, history, term, next, calls, exitBy, response, event>>

(***************************************************************************)
(* Bounds of the model.                                                    *)
(***************************************************************************)
\* Bytes the Idle buffer may hold.
MaxLen == 3
\* Size of the collected stdin: its lines plus their bytes.
MaxStdin == 4
\* Entries the history may hold.
MaxHist == 2

(***************************************************************************)
(* Strings.                                                                *)
(***************************************************************************)
None == <<>>

Some(x) == <<x>>

EmptyString == <<>>

\* The two bytes of a non-ASCII character (U+00E9).
WideChar == <<"C3", "A9">>

IsContinuationByte(b) == b = "A9"

\* str::is_char_boundary, i a 0-based byte index.
is_char_boundary(s, i) ==
    \/ i = 0
    \/ i = Len(s)
    \/ (0 < i /\ i < Len(s) /\ ~IsContinuationByte(s[i + 1]))

\* The UTF-8 length of the character starting at byte index i.
len_utf8_at(s, i) == IF s[i + 1] = "C3" THEN 2 ELSE 1

\* String::insert(idx, ch), defined on a character boundary.
string_insert(s, idx, ch) == SubSeq(s, 1, idx) \o ch \o SubSeq(s, idx + 1, Len(s))

\* String::remove(idx): panics off a boundary and at the end of the string.
string_remove_panics(s, idx) == ~is_char_boundary(s, idx) \/ idx >= Len(s)

string_remove(s, idx) ==
    SubSeq(s, 1, idx) \o SubSeq(s, idx + 1 + len_utf8_at(s, idx), Len(s))

\* String::pop: removes the last character, if any.
string_pop(s) ==
    IF s = <<>> THEN s
    ELSE IF IsContinuationByte(s[Len(s)]) THEN SubSeq(s, 1, Len(s) - 2)
    ELSE SubSeq(s, 1, Len(s) - 1)

\* str::starts_with.
starts_with(s, p) == Len(p) <= Len(s) /\ SubSeq(s, 1, Len(p)) = p

\* &s[from..]
slice_from(s, from) == SubSeq(s, from + 1, Len(s))

\* Vec::pop, the popped value dropped.
vec_pop(v) == IF v = <<>> THEN v ELSE SubSeq(v, 1, Len(v) - 1)

RECURSIVE SumLen(_)
SumLen(v) == IF v = <<>> THEN 0 ELSE Len(Head(v)) + SumLen(Tail(v))

\* The size of a Vec<String>: its lines plus their bytes.
StdinSize(v) == Len(v) + SumLen(v)

(***************************************************************************)
(* The State enum and the Next enum of renderer.rs.                        *)
(***************************************************************************)
Idle(cmd, cursor, comp) ==
    [tag |-> "Idle", cmd |-> cmd, cursor |-> cursor, comp |-> comp]

Running(prep, stdin) == [tag |-> "Running", prep |-> prep, stdin |-> stdin]

IsIdle(st) == st.tag = "Idle"

IsRunning(st) == st.tag = "Running"

InitialState == Idle(EmptyString, 0, None)

Continue == [tag |-> "Continue", msg |-> EmptyString]

Exit(msg) == [tag |-> "Exit", msg |-> msg]

Clear == [tag |-> "Clear", msg |-> EmptyString]

\* An Err(_) of anyhow::Result, naming the call that failed.
Err(what) == [tag |-> "Err", msg |-> what]

(***************************************************************************)
(* An implementation of the Execute trait (command.rs).  The engine is     *)
(* generic in it; this one is the echo shell of examples/echosh.rs (the    *)
(* command "cat" requires stdin) extended with what the trait allows       *)
(* beyond the example: a prompt that depends on the context, aliases that  *)
(* prepare rewrites, completions, and every OutputAction and failure.      *)
(***************************************************************************)
Cat == <<"c", "a", "t">>

Contexts == {0, 1}

\* Execute::prompt
prompt(ctx) == IF ctx = 0 THEN <<"$">> ELSE <<"#">>

Prepare(command, stdin_required) ==
    [command |-> command, stdin_required |-> stdin_required]

\* Execute::prepare: "cat" requires stdin; "c" is an alias of "cat" and "a" an
\* alias of "at", which prepare rewrites; any other command is kept as typed.
prepare(cmd) ==
    IF cmd = Cat THEN Prepare(cmd, TRUE)
    ELSE IF cmd = <<"c">> THEN Prepare(Cat, TRUE)
    ELSE IF cmd = <<"a">> THEN Prepare(<<"a", "t">>, FALSE)
    ELSE Prepare(cmd, FALSE)

\* The default Execute::completion: no suffix, no candidates.
default_completion == [ok |-> TRUE, fixed |-> EmptyString, variable |-> <<>>]

\* Execute::completion: a failure, the default, or a suffix and candidates. The
\* suffix is one that keeps the buffer within MaxLen.
completion(ctx, cmd) ==
    {[ok |-> FALSE, fixed |-> EmptyString, variable |-> <<>>], default_completion}
    \cup {[ok |-> TRUE, fixed |-> EmptyString, variable |-> v] :
            v \in {<<Cat, <<"a">>, <<"t">>>>, <<<<"a", "t">>, <<"a">>>>}}
    \cup {[ok |-> TRUE, fixed |-> f, variable |-> <<<<"a">>, EmptyString>>] :
            f \in {g \in {<<"c">>} : Len(cmd) + Len(g) <= MaxLen}}

CommandInput(p, command, stdin) ==
    [prompt |-> p, command |-> command, stdin |-> stdin]

CommandOutput(p, command, stdin, stdout, stderr) ==
    [prompt |-> p, command |-> command, stdin |-> stdin,
     stdout |-> stdout, stderr |-> stderr]

\* The CommandOutputs this implementation returns.
Outputs ==
    {CommandOutput(<<"$">>, <<"a", "t">>, <<>>, <<<<"a", "t">>>>, <<>>),
     CommandOutput(<<"#">>, <<"c">>, <<<<"h">>>>, <<<<"o">>>>, <<<<"i">>>>)}

\* The OutputAction enum, and a failure of execute.
ActionCommand(o) == [tag |-> "Command", output |-> Some(o)]

ActionExit == [tag |-> "Exit", output |-> None]

ActionClear == [tag |-> "Clear", output |-> None]

ActionErr == [tag |-> "Err", output |-> None]

\* Execute::execute: what it returns and the context it leaves. It returns a
\* Command only while the history has room for it (room bounds the model).
execute(ctx, inp, room) ==
    {[action |-> a, context |-> c] :
        a \in {ActionExit, ActionClear, ActionErr}
              \cup {ActionCommand(o) : o \in {x \in Outputs : room}},
        c \in Contexts}

(***************************************************************************)
(* The App of renderer.rs: its state, context and history, and the record  *)
(* of the trait calls the current App::input made.                         *)
(***************************************************************************)
App(st, ctx, hist, cs) ==
    [state |-> st, context |-> ctx, history |-> hist, calls |-> cs]

Call(op, arg, res) == [op |-> op, arg |-> arg, res |-> res]

\* What a method of App leaves and returns; panic: the method panicked.
Outcome(app, ret) == [app |-> app, ret |-> ret, panic |-> FALSE]

Panic(app) == [app |-> app, ret |-> Continue, panic |-> TRUE]

\* A move_cursor_left that keeps the completion set.
move_cursor_left_keeping(st) ==
    IF IsRunning(st) \/ st.cursor = 0 THEN st
    ELSE Idle(st.cmd, st.cursor - 1, st.comp)

\* App::move_cursor_left
move_cursor_left(st) ==
    IF IsRunning(st) \/ st.cursor = 0 THEN st
    ELSE Idle(st.cmd, st.cursor - 1, None)

\* A move_cursor_right that does not stop at the end of the buffer.
move_cursor_right_unclamped(st) ==
    IF IsIdle(st) THEN Idle(st.cmd, st.cursor + 1, st.comp) ELSE st

\* A move_cursor_right that jumps to the end of the buffer.
move_cursor_right_to_end(st) ==
    IF IsIdle(st) THEN Idle(st.cmd, Len(st.cmd), st.comp) ELSE st

\* App::move_cursor_right
move_cursor_right(st) ==
    IF IsIdle(st) /\ st.cursor # Len(st.cmd)
    THEN Idle(st.cmd, st.cursor + 1, st.comp)
    ELSE st

\* App::cursor_backspace panics when String::remove does.
cursor_backspace_panics(st) ==
    IsIdle(st) /\ st.cursor # 0 /\ string_remove_panics(st.cmd, st.cursor - 1)

\* A cursor_backspace that returns to Idle when the stdin has no line left.
cursor_backspace_to_idle(st) ==
    IF IsIdle(st)
    THEN IF st.cursor = 0 THEN st
         ELSE Idle(string_remove(st.cmd, st.cursor - 1), st.cursor - 1, None)
    ELSE LET n == Len(st.stdin)
             popped == IF n = 0 THEN st.stdin
                       ELSE [st.stdin EXCEPT ![n] = string_pop(st.stdin[n])]
         IN IF n = 0 \/ popped[n] = EmptyString
            THEN IF vec_pop(popped) = <<>> THEN InitialState
                 ELSE Running(st.prep, vec_pop(popped))
            ELSE Running(st.prep, popped)

\* A cursor_backspace that drops the last stdin line only when it removed the
\* last character of it.
cursor_backspace_keeping_empty(st) ==
    IF IsIdle(st)
    THEN IF st.cursor = 0 THEN st
         ELSE Idle(string_remove(st.cmd, st.cursor - 1), st.cursor - 1, None)
    ELSE LET n == Len(st.stdin)
             popped == IF n = 0 THEN st.stdin
                       ELSE [st.stdin EXCEPT ![n] = string_pop(st.stdin[n])]
         IN IF n > 0 /\ st.stdin[n] # EmptyString /\ popped[n] = EmptyString
            THEN Running(st.prep, vec_pop(popped))
            ELSE Running(st.prep, popped)

\* App::cursor_backspace
cursor_backspace(st) ==
    IF IsIdle(st)
    THEN IF st.cursor = 0 THEN st
         ELSE Idle(string_remove(st.cmd, st.cursor - 1), st.cursor - 1, None)
    ELSE LET n == Len(st.stdin)
             popped == IF n = 0 THEN st.stdin
                       ELSE [st.stdin EXCEPT ![n] = string_pop(st.stdin[n])]
         IN IF n = 0 \/ popped[n] = EmptyString
            THEN Running(st.prep, vec_pop(popped))
            ELSE Running(st.prep, popped)

\* A finalize that resets the state only when it appends to the history.
finalized_reset_on_command(app, inp, x) ==
    LET called == [app EXCEPT
                     !.context = x.context,
                     !.calls = Append(app.calls, Call("execute", inp, x.action))]
    IN IF x.action.tag = "Err" THEN Outcome(called, Err("execute"))
       ELSE IF x.action.tag = "Command"
       THEN Outcome([called EXCEPT
                       !.state = InitialState,
                       !.history = Append(app.history, x.action.output[1])],
                    Continue)
       ELSE IF x.action.tag = "Exit" THEN Outcome(called, Exit(EmptyString))
       ELSE Outcome([called EXCEPT !.history = <<>>], Clear)

\* App::_final_execution from the return of execute on: x is what execute
\* returned for inp and the context it left.
finalized(app, inp, x) ==
    LET called == [app EXCEPT
                     !.context = x.context,
                     !.calls = Append(app.calls, Call("execute", inp, x.action))]
        reset == [called EXCEPT !.state = InitialState]
    IN IF x.action.tag = "Err" THEN Outcome(called, Err("execute"))
       ELSE IF x.action.tag = "Command"
       THEN Outcome([reset EXCEPT
                       !.history = Append(app.history, x.action.output[1])],
                    Continue)
       ELSE IF x.action.tag = "Exit" THEN Outcome(reset, Exit(EmptyString))
       ELSE Outcome([reset EXCEPT !.history = <<>>], Clear)

\* App::_final_execution
final_execution(app, cmd, stdin) ==
    LET inp == CommandInput(prompt(app.context), cmd, stdin)
    IN {finalized(app, inp, x) :
          x \in execute(app.context, inp, Len(app.history) < MaxHist)}

\* A continue_execution that hands over no stdin when no line was collected.
continue_execution_none_when_empty(app) ==
    IF IsRunning(app.state)
    THEN final_execution(app, app.state.prep.command,
                         IF app.state.stdin = <<>> THEN None
                         ELSE Some(app.state.stdin))
    ELSE {Outcome(app, Continue)}

\* App::continue_execution
continue_execution(app) ==
    IF IsRunning(app.state)
    THEN final_execution(app, app.state.prep.command, Some(app.state.stdin))
    ELSE {Outcome(app, Continue)}

\* An execute_command that collects stdin whatever prepare returned.
execute_command_collecting(app) ==
    IF IsRunning(app.state) THEN {Outcome(app, Continue)}
    ELSE LET cmd == app.state.cmd
             p == prepare(cmd)
         IN {Outcome([app EXCEPT
                        !.state = Running(p, <<>>),
                        !.calls = Append(app.calls, Call("prepare", cmd, p))],
                     Continue)}

\* An execute_command that hands execute the command prepare returned.
execute_command_prepared(app) ==
    IF IsRunning(app.state) THEN {Outcome(app, Continue)}
    ELSE LET cmd == app.state.cmd
             p == prepare(cmd)
             running == [app EXCEPT
                           !.state = Running(p, <<>>),
                           !.calls = Append(app.calls, Call("prepare", cmd, p))]
         IN IF p.stdin_required
            THEN {Outcome(running, Continue)}
            ELSE final_execution(running, p.command, None)

\* App::execute_command
execute_command(app) ==
    IF IsRunning(app.state) THEN {Outcome(app, Continue)}
    ELSE LET cmd == app.state.cmd
             p == prepare(cmd)
             running == [app EXCEPT
                           !.state = Running(p, <<>>),
                           !.calls = Append(app.calls, Call("prepare", cmd, p))]
         IN IF p.stdin_required
            THEN {Outcome(running, Continue)}
            ELSE final_execution(running, cmd, None)

(***************************************************************************)
(* Events (crossterm::event::Event) and App::input.                        *)
(***************************************************************************)
KeyEvent(code, ch, mods, kind) ==
    [type |-> "Key", code |-> code, ch |-> ch, mods |-> mods, kind |-> kind]

\* KeyCode::Char(c) pressed with the modifiers mods.
CharKey(c, mods) == KeyEvent("Char", c, mods, "Press")

\* A key that is no character, pressed.
CodeKey(code, mods) == KeyEvent(code, EmptyString, mods, "Press")

Released(ev) == [ev EXCEPT !.kind = "Release"]

ResizeEvent ==
    [type |-> "Resize", code |-> "None", ch |-> EmptyString,
     mods |-> "NONE", kind |-> "None"]

\* The keys App::input binds, pressed with no modifier.
LeftKey == CodeKey("Left", "NONE")

RightKey == CodeKey("Right", "NONE")

TabKey == CodeKey("Tab", "NONE")

EnterKey == CodeKey("Enter", "NONE")

UpKey == CodeKey("Up", "NONE")

CtrlL == CharKey(<<"l">>, "CONTROL")

CtrlC == CharKey(<<"c">>, "CONTROL")

CtrlD == CharKey(<<"d">>, "CONTROL")

\* A Ctrl-L arm that removes the last entry of the history only.
input_ctrl_l_drop_last(app) ==
    {Outcome([app EXCEPT !.history = vec_pop(app.history)], Continue)}

\* A Ctrl-L arm that also starts the input over.
input_ctrl_l_reset(app) ==
    {Outcome([app EXCEPT !.history = <<>>, !.state = InitialState], Continue)}

\* The Ctrl-L arm.
input_ctrl_l(app) == {Outcome([app EXCEPT !.history = <<>>], Continue)}

\* A Ctrl-D / Ctrl-C arm that leaves the session with the buffer as message.
input_ctrl_cd_with_buffer(app) ==
    IF IsRunning(app.state)
    THEN {IF r.ret.tag = "Err" THEN r ELSE Outcome(r.app, Continue) :
            r \in continue_execution(app)}
    ELSE {Outcome(app, Exit(app.state.cmd))}

\* The Ctrl-D / Ctrl-C arm.
input_ctrl_cd(app) ==
    IF IsRunning(app.state)
    THEN {IF r.ret.tag = "Err" THEN r ELSE Outcome(r.app, Continue) :
            r \in continue_execution(app)}
    ELSE {Outcome(app, Exit(EmptyString))}

\* A Tab arm that asks for completions wherever the cursor is.
input_tab_anywhere(app) ==
    LET st == app.state IN
    IF IsIdle(st) /\ st.comp = None
    THEN {LET called == Append(app.calls, Call("completion", st.cmd, r))
              cmd == st.cmd \o r.fixed
          IN IF ~r.ok
             THEN Outcome([app EXCEPT !.calls = called], Err("completion"))
             ELSE Outcome([app EXCEPT
                             !.state = Idle(cmd, Len(cmd), Some(r.variable)),
                             !.calls = called],
                          Continue) :
            r \in completion(app.context, st.cmd)}
    ELSE {Outcome(app, Continue)}

\* The Tab arm.
input_tab(app) ==
    LET st == app.state IN
    IF IsIdle(st) /\ st.comp = None /\ st.cursor = Len(st.cmd)
    THEN {LET called == Append(app.calls, Call("completion", st.cmd, r))
              cmd == st.cmd \o r.fixed
          IN IF ~r.ok
             THEN Outcome([app EXCEPT !.calls = called], Err("completion"))
             ELSE Outcome([app EXCEPT
                             !.state = Idle(cmd, Len(cmd), Some(r.variable)),
                             !.calls = called],
                          Continue) :
            r \in completion(app.context, st.cmd)}
    ELSE {Outcome(app, Continue)}

\* The filter_map of the Char arm: the candidates that start with cmd[..cursor],
\* each cut by cursor bytes.
refine(cmp, cmd, cursor) ==
    LET keep(i) == starts_with(i, SubSeq(cmd, 1, cursor))
        kept == SelectSeq(cmp, keep)
    IN [k \in 1..Len(kept) |-> slice_from(kept[k], cursor)]

\* A push that starts a new stdin line with every character.
stdin_push_new_line(stdin, c) == Append(stdin, c)

\* The Running side of the Char arm: the character goes to the end of the last
\* line, or makes the first line.
stdin_push(stdin, c) ==
    IF stdin = <<>> THEN <<c>>
    ELSE [stdin EXCEPT ![Len(stdin)] = @ \o c]

\* The Char arm.
input_char(app, c) ==
    LET st == app.state IN
    IF IsIdle(st)
    THEN IF ~is_char_boundary(st.cmd, st.cursor)
         THEN {Panic(app)}
         ELSE LET cmd == string_insert(st.cmd, st.cursor, c)
                  cursor == st.cursor + 1
                  inserted == [app EXCEPT !.state = Idle(cmd, cursor, st.comp)]
              IN IF st.comp = None THEN {Outcome(inserted, Continue)}
                 ELSE IF st.comp[1] # <<>> /\ ~is_char_boundary(cmd, cursor)
                 THEN {Panic(inserted)}
                 ELSE {Outcome([app EXCEPT !.state =
                                  Idle(cmd, cursor,
                                       Some(refine(st.comp[1], cmd, cursor)))],
                               Continue)}
    ELSE {Outcome([app EXCEPT !.state = Running(st.prep, stdin_push(st.stdin, c))],
                  Continue)}

\* The Backspace arm.
input_backspace(app) ==
    IF cursor_backspace_panics(app.state) THEN {Panic(app)}
    ELSE {Outcome([app EXCEPT !.state = cursor_backspace(app.state)], Continue)}

\* An Enter arm that ends the stdin collection as Ctrl-D does.
input_enter_finalizing(app) ==
    IF IsIdle(app.state) THEN execute_command(app)
    ELSE continue_execution(app)

\* The Enter arm.
input_enter(app) ==
    IF IsIdle(app.state) THEN execute_command(app)
    ELSE {Outcome([app EXCEPT !.state.stdin = Append(@, EmptyString)], Continue)}

\* An Up arm that recalls the oldest entry of the history.
input_up_oldest(app) ==
    LET st == app.state
        n == Len(app.history)
    IN IF n > 0 /\ IsIdle(st)
       THEN {Outcome([app EXCEPT !.state =
                        Idle(app.history[1].command,
                             Len(app.history[1].command), st.comp)],
                     Continue)}
       ELSE {Outcome(app, Continue)}

\* The Up arm.
input_up(app) ==
    LET st == app.state
        n == Len(app.history)
    IN IF n > 0 /\ IsIdle(st)
       THEN {Outcome([app EXCEPT !.state =
                        Idle(app.history[n].command,
                             Len(app.history[n].command), st.comp)],
                     Continue)}
       ELSE {Outcome(app, Continue)}

\* The arms of the match in App::input below the Release arm, in their order.
input_pressed(app, ev) ==
    IF ev.code = "Char" /\ ev.ch = <<"l">> /\ ev.mods = "CONTROL"
    THEN input_ctrl_l(app)
    ELSE IF ev.code = "Char" /\ ev.ch \in {<<"d">>, <<"c">>} /\ ev.mods = "CONTROL"
    THEN input_ctrl_cd(app)
    ELSE IF ev.code = "Left" /\ ev.mods = "NONE"
    THEN {Outcome([app EXCEPT !.state = move_cursor_left(app.state)], Continue)}
    ELSE IF ev.code = "Right" /\ ev.mods = "NONE"
    THEN {Outcome([app EXCEPT !.state = move_cursor_right(app.state)], Continue)}
    ELSE IF ev.code = "Tab" /\ ev.mods = "NONE" THEN input_tab(app)
    ELSE IF ev.code = "Char" /\ ev.mods \in {"NONE", "SHIFT"}
    THEN input_char(app, ev.ch)
    ELSE IF ev.code = "Backspace" /\ ev.mods = "NONE" THEN input_backspace(app)
    ELSE IF ev.code = "Enter" /\ ev.mods = "NONE" THEN input_enter(app)
    ELSE IF ev.code = "Up" /\ ev.mods = "NONE" THEN input_up(app)
    ELSE {Outcome(app, Continue)}

\* An App::input that handles a key whatever its kind.
input_any_kind(app, ev) ==
    IF ev.type # "Key" THEN {Outcome(app, Continue)}
    ELSE input_pressed(app, ev)

\* App::input: the outcomes of handling ev; an event that is no key, or a key
\* released, is ignored.
input(app, ev) ==
    IF ev.type # "Key" \/ ev.kind = "Release" THEN {Outcome(app, Continue)}
    ELSE input_pressed(app, ev)

(***************************************************************************)
(* App::render, as far as the driving loop depends on it: where it panics. *)
(***************************************************************************)
\* split_at(cursor) panics off a character boundary, and right_cmd[1..] when
\* the character at the cursor is wider than one byte.
render_panics(st) ==
    /\ IsIdle(st)
    /\ \/ ~is_char_boundary(st.cmd, st.cursor)
       \/ (st.cursor < Len(st.cmd) /\ len_utf8_at(st.cmd, st.cursor) > 1)

(***************************************************************************)
(* App::render: the lines handed to the Paragraph widget. A line is a       *)
(* sequence of spans, a span a string and the style it is drawn in.         *)
(***************************************************************************)
Span(content, style) == [content |-> content, style |-> style]

Blank == <<" ">>

\* One line of one span per string of v.
span_lines(v, style) == [k \in 1..Len(v) |-> <<Span(v[k], style)>>]

\* A render_history that puts the stderr lines before the stdout lines.
render_history_errors_first(h) ==
    <<<<Span(h.prompt, "blue"), Span(Blank, "raw"), Span(h.command, "bold")>>>>
    \o span_lines(h.stdin, "raw")
    \o span_lines(h.stderr, "red")
    \o span_lines(h.stdout, "raw")

\* render_history
render_history(h) ==
    <<<<Span(h.prompt, "blue"), Span(Blank, "raw"), Span(h.command, "bold")>>>>
    \o span_lines(h.stdin, "raw")
    \o span_lines(h.stdout, "raw")
    \o span_lines(h.stderr, "red")

\* self.history.iter().flat_map(render_history)
RECURSIVE history_lines(_)
history_lines(hist) ==
    IF hist = <<>> THEN <<>>
    ELSE render_history(Head(hist)) \o history_lines(Tail(hist))

\* The lines App::render adds for the current state, where it does not panic.
state_lines(app) ==
    LET st == app.state
        p == prompt(app.context)
    IN IF IsIdle(st)
       THEN LET left_cmd == SubSeq(st.cmd, 1, st.cursor)
                right_cmd == SubSeq(st.cmd, st.cursor + 1, Len(st.cmd))
                cursor == IF right_cmd = EmptyString
                          THEN Span(Blank, "on_white")
                          ELSE Span(SubSeq(right_cmd, 1, len_utf8_at(right_cmd, 0)),
                                    "black_on_white")
                rest == IF right_cmd = EmptyString THEN Span(EmptyString, "raw")
                        ELSE Span(slice_from(right_cmd, 1), "bold")
            IN <<<<Span(p, "blue"), Span(Blank, "raw"), Span(left_cmd, "bold"),
                   cursor, rest>>>>
               \o (IF st.comp = None THEN <<>>
                   ELSE [k \in 1..Len(st.comp[1]) |->
                           <<Span(st.cmd \o st.comp[1][k], "on_grey")>>])
       ELSE <<<<Span(p, "blue"), Span(Blank, "raw"),
                Span(st.prep.command, "bold")>>>>
            \o span_lines(st.stdin, "raw")

\* App::render: text_content.
render(app) == history_lines(app.history) \o state_lines(app)

(***************************************************************************)
(* The keys the user presses. The characters typed are few, and a key that *)
(* would grow the buffer or the stdin beyond the bounds is not pressed.    *)
(***************************************************************************)
IdleChars == {<<"c">>, <<"a">>, <<"t">>, WideChar}

RunningChars == {<<"h">>, <<"i">>}

ShiftChars == {<<"a">>, <<"h">>}

CharEvents ==
    {CharKey(c, "NONE") : c \in IdleChars \cup RunningChars}
    \cup {CharKey(c, "SHIFT") : c \in ShiftChars}

ReleaseEvents ==
    {Released(e) : e \in {CtrlL, CtrlC, CtrlD, EnterKey,
                          CharKey(<<"a">>, "NONE")}}

BackspaceEvents ==
    {CodeKey("Backspace", "NONE"), KeyEvent("Backspace", EmptyString, "NONE", "Repeat")}

\* Keys no arm of the match takes.
UnboundEvents ==
    {CodeKey("Down", "NONE"), CodeKey("Enter", "SHIFT"), CharKey(<<"a">>, "CONTROL")}

IsTyped(ev) ==
    /\ ev.type = "Key" /\ ev.kind # "Release"
    /\ ev.code = "Char" /\ ev.mods \in {"NONE", "SHIFT"}

WithinBounds(st, ev) ==
    /\ IsTyped(ev) /\ IsIdle(st) =>
          ev.ch \in IdleChars /\ Len(st.cmd) + Len(ev.ch) <= MaxLen
    /\ IsTyped(ev) /\ IsRunning(st) =>
          /\ ev.ch \in RunningChars
          /\ StdinSize(st.stdin) + Len(ev.ch)
                + (IF st.stdin = <<>> THEN 1 ELSE 0) <= MaxStdin
    /\ ev = EnterKey /\ IsRunning(st) =>
          StdinSize(st.stdin) + 1 <= MaxStdin

(***************************************************************************)
(* App::execute: the set-up, the driving loop, the restoration.            *)
(***************************************************************************)
Terminal(raw, alt, cursor) == [raw |-> raw, alt |-> alt, cursor |-> cursor]

\* The terminal as App::execute finds it.
CookedTerminal == Terminal(FALSE, FALSE, TRUE)

OkResponse(msg) == [tag |-> "Ok", msg |-> msg]

NoResponse == [tag |-> "None", msg |-> EmptyString]

Position(p, by, resp, t) == [pc |-> p, exitBy |-> by, response |-> resp, term |-> t]

\* enable_raw_mode()?, execute!(EnterAlternateScreen)?, Terminal::new()?; fail
\* names the call that fails, if any.
setup(t, fail) ==
    IF fail = "enable_raw_mode"
    THEN Position("done", "setup", Err(fail), t)
    ELSE IF fail = "enter_alternate_screen"
    THEN Position("done", "setup", Err(fail), [t EXCEPT !.raw = TRUE])
    ELSE IF fail = "terminal_new"
    THEN Position("done", "setup", Err(fail), [t EXCEPT !.raw = TRUE, !.alt = TRUE])
    ELSE Position("loop", "none", NoResponse, [t EXCEPT !.raw = TRUE, !.alt = TRUE])

\* A match on what App::input returned that carries on after a failure.
after_input_carry_on(r, clearOk, t) ==
    IF r.panic THEN Position("panicked", "panic", NoResponse, t)
    ELSE IF r.ret.tag = "Exit"
    THEN Position("restore", "exit", OkResponse(r.ret.msg), t)
    ELSE IF r.ret.tag = "Clear" /\ ~clearOk
    THEN Position("done", "clear", Err("clear"), t)
    ELSE Position("loop", "none", NoResponse, t)

\* The match on what App::input returned; clearOk: terminal.clear() succeeds.
after_input(r, clearOk, t) ==
    IF r.panic THEN Position("panicked", "panic", NoResponse, t)
    ELSE IF r.ret.tag = "Continue" THEN Position("loop", "none", NoResponse, t)
    ELSE IF r.ret.tag = "Exit"
    THEN Position("restore", "exit", OkResponse(r.ret.msg), t)
    ELSE IF r.ret.tag = "Clear"
    THEN IF clearOk THEN Position("loop", "none", NoResponse, t)
         ELSE Position("done", "clear", Err("clear"), t)
    ELSE Position("restore", "contract", r.ret, t)

\* disable_raw_mode()?, execute!(LeaveAlternateScreen)?, show_cursor()?, response
restore(t, resp, by, fail) ==
    IF fail = "disable_raw_mode" THEN Position("done", by, Err(fail), t)
    ELSE IF fail = "leave_alternate_screen"
    THEN Position("done", by, Err(fail), [t EXCEPT !.raw = FALSE])
    ELSE IF fail = "show_cursor"
    THEN Position("done", by, Err(fail), [t EXCEPT !.raw = FALSE, !.alt = FALSE])
    ELSE Position("done", by, resp, Terminal(FALSE, FALSE, TRUE))

\* terminal.draw hides the cursor.
drawn(t) == [t EXCEPT !.cursor = FALSE]

Goto(p) ==
    /\ pc' = p.pc
    /\ exitBy' = p.exitBy
    /\ response' = p.response
    /\ term' = p.term

Init ==
    /\ pc = "start"
    /\ state = InitialState
    /\ context \in Contexts
    /\ history = <<>>
    /\ term = CookedTerminal
    /\ next = Continue
    /\ calls = <<>>
    /\ exitBy = "none"
    /\ response = NoResponse
    /\ event = None

Setup ==
    /\ pc = "start"
    /\ \E fail \in {"none", "enable_raw_mode", "enter_alternate_screen", "terminal_new"} :
          Goto(setup(term, fail))
    /\ UNCHANGED <<state, context, history, next, calls, event>>

\* An iteration that does not come to read an event or to call App::input.
NothingRead ==
    /\ next' = Continue
    /\ calls' = <<>>
    /\ event' = None
    /\ UNCHANGED <<state, context, history>>

\* render panics inside terminal.draw.
DrawPanic ==
    /\ pc = "loop"
    /\ render_panics(state)
    /\ Goto(Position("panicked", "panic", NoResponse, term))
    /\ NothingRead

\* terminal.draw fails.
DrawFail ==
    /\ pc = "loop"
    /\ ~render_panics(state)
    /\ Goto(Position("restore", "draw", Err("draw"), term))
    /\ NothingRead

\* terminal.draw succeeds: the frame is rendered, an event is to be read.
Draw ==
    /\ pc = "loop"
    /\ ~render_panics(state)
    /\ Goto(Position("read", "none", NoResponse, drawn(term)))
    /\ event' = None
    /\ UNCHANGED <<state, context, history, next, calls>>

\* crossterm::event::read fails.
ReadFail ==
    /\ pc = "read"
    /\ Goto(Position("restore", "read", Err("read"), term))
    /\ NothingRead

\* The rest of an iteration: ev is read and handled.
Iterate(ev) ==
    /\ pc = "read"
    /\ WithinBounds(state, ev)
    /\ \E r \in input(App(state, context, history, <<>>), ev) :
       \E clearOk \in IF r.ret.tag = "Clear" THEN BOOLEAN ELSE {TRUE} :
          /\ state' = r.app.state
          /\ context' = r.app.context
          /\ history' = r.app.history
          /\ calls' = r.app.calls
          /\ next' = r.ret
          /\ event' = Some(ev)
          /\ Goto(after_input(r, clearOk, term))

KeyRelease == \E ev \in ReleaseEvents : Iterate(ev)

KeyCtrlL == Iterate(CtrlL)

KeyCtrlCD == \E ev \in {CtrlC, CtrlD} : Iterate(ev)

KeyLeft == Iterate(LeftKey)

KeyRight == Iterate(RightKey)

KeyTab == Iterate(TabKey)

KeyChar == \E ev \in CharEvents : Iterate(ev)

KeyBackspace == \E ev \in BackspaceEvents : Iterate(ev)

KeyEnter == Iterate(EnterKey)

KeyUp == Iterate(UpKey)

KeyUnbound == \E ev \in UnboundEvents : Iterate(ev)

Resize == Iterate(ResizeEvent)

Restore ==
    /\ pc = "restore"
    /\ \E fail \in {"none", "disable_raw_mode", "leave_alternate_screen", "show_cursor"} :
          Goto(restore(term, response, exitBy, fail))
    /\ UNCHANGED <<state, context, history, next, calls, event>>

Next ==
    \/ Setup
    \/ DrawPanic
    \/ DrawFail
    \/ Draw
    \/ ReadFail
    \/ KeyRelease
    \/ KeyCtrlL
    \/ KeyCtrlCD
    \/ KeyLeft
    \/ KeyRight
    \/ KeyTab
    \/ KeyChar
    \/ KeyBackspace
    \/ KeyEnter
    \/ KeyUp
    \/ KeyUnbound
    \/ Resize
    \/ Restore

Spec == Init /\ [][Next]_vars

(***************************************************************************)
(* Properties.                                                             *)
(***************************************************************************)
\* The calls of Execute::execute among cs.
Executes(cs) == SelectSeq(cs, LAMBDA c : c.op = "execute")

\* C1: in every reachable Idle state the cursor is a byte index into the
\* buffer, 0 <= cursor <= length(buffer).
C1_CursorWithinBuffer ==
    IsIdle(state) => 0 <= state.cursor /\ state.cursor <= Len(state.cmd)

\* A buffer edited after a command was finalized, the cursor inside it.
C1_Witness ==
    /\ pc = "loop" /\ IsIdle(state) /\ history # <<>>
    /\ Len(state.cmd) = MaxLen /\ state.cursor = 1

\* C2: whenever execute returns Exit during a finalize, on either path, the
\* input handler returns Exit and the driving loop is left with it.
C2_ExitSignalled ==
    (\E k \in 1..Len(calls) : calls[k].op = "execute" /\ calls[k].res = ActionExit)
        => next = Exit(EmptyString) /\ pc \in {"restore", "done"} /\ exitBy = "exit"

\* C3: whenever execute returns Clear during a finalize, on either path, the
\* history is empty, the state is Idle("", 0, none) and the input handler
\* returns Clear.
C3_ClearSignalled ==
    (\E k \in 1..Len(calls) : calls[k].op = "execute" /\ calls[k].res = ActionClear)
        => history = <<>> /\ state = InitialState /\ next = Clear

\* C4: a finalize in which execute succeeds leaves Idle("", 0, none), whatever
\* the directive; with Command(output) the history is the one before with
\* exactly that output appended.
C4_FinalizeResets ==
    [][\A k \in 1..Len(calls') :
          (pc = "read" /\ calls'[k].op = "execute" /\ calls'[k].res.tag # "Err")
          => /\ state' = InitialState
             /\ calls'[k].res.tag = "Command"
                  => history' = Append(history, calls'[k].res.output[1])]_vars

\* A Command output appended to a history that held an entry already.
C4_Witness ==
    /\ Len(history) = 2 /\ state = InitialState
    /\ Len(Executes(calls)) = 1
    /\ Executes(calls)[1].res = ActionCommand(history[2])
    /\ history[1] # history[2]

\* The terminal calls of the restoration, one of which failed.
RestorationFailed ==
    response \in {Err("disable_raw_mode"), Err("leave_alternate_screen"),
                  Err("show_cursor")}

\* C5: on every exit path of the driving loop the terminal is restored (raw
\* mode off, alternate screen left, cursor shown) before App::execute returns.
C5_TerminalRestored ==
    (pc = "done" /\ exitBy \in {"exit", "contract", "draw", "read", "clear"}
        /\ ~RestorationFailed)
    => term = CookedTerminal

\* Scenario A: the keys "cat", Enter, Enter, Enter, "hi", Ctrl-D, and the state
\* before each of them.
ScenarioKeys ==
    <<CharKey(<<"c">>, "NONE"), CharKey(<<"a">>, "NONE"), CharKey(<<"t">>, "NONE"),
      EnterKey, EnterKey, EnterKey,
      CharKey(<<"h">>, "NONE"), CharKey(<<"i">>, "NONE"), CtrlD>>

ScenarioStates ==
    <<InitialState,
      Idle(<<"c">>, 1, None),
      Idle(<<"c", "a">>, 2, None),
      Idle(Cat, 3, None),
      Running(Prepare(Cat, TRUE), <<>>),
      Running(Prepare(Cat, TRUE), <<EmptyString>>),
      Running(Prepare(Cat, TRUE), <<EmptyString, EmptyString>>),
      Running(Prepare(Cat, TRUE), <<EmptyString, <<"h">>>>),
      Running(Prepare(Cat, TRUE), <<EmptyString, <<"h", "i">>>>)>>

\* C6: with prepare("cat").stdin_required, from the initial state "cat" and
\* Enter give Running(Prepare{"cat", true}, []) without a call of execute; then
\* Enter, Enter, 'h', 'i' collect ["", "hi"] and Ctrl-D calls execute exactly
\* once, with that stdin; the CommandOutput it returns is appended to the
\* history and the state is Idle("", 0, none).
C6_ScenarioA ==
    [][\A k \in 1..Len(ScenarioKeys) :
          (state = ScenarioStates[k] /\ Iterate(ScenarioKeys[k]))
          => IF k < Len(ScenarioKeys)
             THEN state' = ScenarioStates[k + 1] /\ Executes(calls') = <<>>
             ELSE /\ Len(Executes(calls')) = 1
                  /\ Executes(calls')[1].arg.stdin
                        = Some(<<EmptyString, <<"h", "i">>>>)
                  /\ Executes(calls')[1].arg.command = Cat
                  /\ Executes(calls')[1].res.tag = "Command"
                       => /\ history' = Append(history,
                                               Executes(calls')[1].res.output[1])
                          /\ state' = InitialState]_vars

\* The end of scenario A: execute was called with stdin ["", "hi"] and its
\* output is the last entry of the history.
C6_Witness ==
    /\ pc = "loop" /\ state = InitialState
    /\ Len(calls) = 1 /\ calls[1].op = "execute"
    /\ calls[1].arg.command = Cat
    /\ calls[1].arg.stdin = Some(<<EmptyString, <<"h", "i">>>>)
    /\ history # <<>>
    /\ calls[1].res = ActionCommand(history[Len(history)])

\* C7: Enter in Idle on a buffer b for which prepare says no stdin is required
\* calls execute exactly once, in that key event, with the CommandInput of
\* command b, no stdin and the prompt of the context; with a Command result
\* the history gains exactly that entry and the state is Idle("", 0, none).
C7_EnterFinalizes ==
    [][(IsIdle(state) /\ ~prepare(state.cmd).stdin_required /\ KeyEnter)
       => /\ Len(Executes(calls')) = 1
          /\ Executes(calls')[1].arg
                = CommandInput(prompt(context), state.cmd, None)
          /\ Executes(calls')[1].res.tag = "Command"
               => /\ history' = Append(history, Executes(calls')[1].res.output[1])
                  /\ state' = InitialState]_vars

\* Enter on the buffer "a", which prepare rewrites: execute got "a", no stdin.
C7_Witness ==
    /\ pc = "loop" /\ state = InitialState
    /\ Len(calls) = 2 /\ calls[1].op = "prepare" /\ calls[2].op = "execute"
    /\ calls[1].res.command # calls[1].arg
    /\ calls[2].arg.command = <<"a">> /\ calls[2].arg.stdin = None
    /\ Len(history) = 2 /\ calls[2].res = ActionCommand(history[2])

\* C8: Ctrl-C or Ctrl-D in Running calls execute exactly once, with stdin
\* present and equal to the lines collected; unless execute fails the state
\* is Idle afterwards.
C8_InterruptFinalizes ==
    [][(IsRunning(state) /\ KeyCtrlCD)
       => /\ Len(calls') = 1 /\ calls'[1].op = "execute"
          /\ calls'[1].arg.stdin = Some(state.stdin)
          /\ calls'[1].res.tag # "Err" => IsIdle(state')]_vars

\* Execute was handed the two collected lines, the first of them empty.
C8_Witness ==
    /\ pc = "loop" /\ IsIdle(state)
    /\ Len(calls) = 1 /\ calls[1].op = "execute"
    /\ calls[1].arg.stdin # None
    /\ Len(calls[1].arg.stdin[1]) = 2
    /\ calls[1].arg.stdin[1][1] = EmptyString
    /\ calls[1].arg.stdin[1][2] # EmptyString

\* C9: only Ctrl-C and Ctrl-D move the state from Running to Idle; a Backspace
\* that empties the only stdin line leaves Running with no line, and Ctrl-D
\* then finalizes with the stdin present and empty, not none.
C9_RunningUntilInterrupt ==
    [][/\ (IsRunning(state) /\ IsIdle(state')) => KeyCtrlCD
       /\ (IsRunning(state) /\ Len(state.stdin) = 1 /\ Len(state.stdin[1]) = 1
             /\ KeyBackspace)
          => state' = Running(state.prep, <<>>)
       /\ (IsRunning(state) /\ state.stdin = <<>> /\ KeyCtrlCD)
          => /\ Len(calls') = 1
             /\ calls'[1].arg.stdin = Some(<<>>)
             /\ calls'[1].arg.stdin # None]_vars

\* A finalize with the stdin present and empty.
C9_Witness ==
    /\ pc = "loop" /\ IsIdle(state)
    /\ Len(calls) = 1 /\ calls[1].op = "execute"
    /\ calls[1].arg.stdin = Some(<<>>)

\* The candidates of cmp whose suffix begins with the character c, each with
\* that character stripped.
suffixes_after(cmp, c) ==
    LET keep(i) == starts_with(i, c)
        kept == SelectSeq(cmp, keep)
    IN [k \in 1..Len(kept) |-> slice_from(kept[k], Len(c))]

\* C10: a character c inserted in Idle while a completion set is active,
\* whatever the buffer, leaves exactly the candidates whose suffix begins with
\* c, in order, each with that leading character stripped.
C10_CompletionRefined ==
    [][\A ev \in CharEvents :
          (IsIdle(state) /\ state.comp # None /\ Iterate(ev) /\ pc' = "loop")
          => state'.comp = Some(suffixes_after(state.comp[1], ev.ch))]_vars

\* The full strings a completion() call c offered: the buffer it was given,
\* with or without the deterministic suffix, followed by a candidate.
offered(c) ==
    {c.arg \o c.res.fixed \o c.res.variable[k] : k \in 1..Len(c.res.variable)}
    \cup {c.arg \o c.res.variable[k] : k \in 1..Len(c.res.variable)}

\* C11: while a completion set is active, the buffer followed by any candidate
\* of the set is one of the full strings offered by the completion() call that
\* installed the set. Stated for the key event that follows the Tab (a
\* character, Right, Up, Ctrl-L, ...), when that call is still on record.
C11_CompletionConsistent ==
    [][(/\ pc = "read" /\ pc' = "loop"
        /\ Len(calls) = 1 /\ calls[1].op = "completion" /\ calls[1].res.ok
        /\ calls' = <<>>
        /\ IsIdle(state') /\ state'.comp # None)
       => \A k \in 1..Len(state'.comp[1]) :
             state'.cmd \o state'.comp[1][k] \in offered(calls[1])]_vars

\* C12: Tab calls completion() only in Idle with the cursor at the end of the
\* buffer and no completion set active; it then appends the deterministic
\* suffix, puts the cursor at the new end and installs the candidates returned,
\* an empty list included; with the default completion the buffer is unchanged
\* and an empty set is installed. In every other situation Tab changes nothing.
C12_TabCompletes ==
    [][KeyTab =>
         IF IsIdle(state) /\ state.cursor = Len(state.cmd) /\ state.comp = None
         THEN /\ Len(calls') = 1
              /\ calls'[1].op = "completion" /\ calls'[1].arg = state.cmd
              /\ calls'[1].res.ok =>
                   state' = Idle(state.cmd \o calls'[1].res.fixed,
                                 Len(state.cmd \o calls'[1].res.fixed),
                                 Some(calls'[1].res.variable))
              /\ calls'[1].res = default_completion =>
                   state' = Idle(state.cmd, Len(state.cmd), Some(<<>>))
              /\ history' = history /\ context' = context
         ELSE /\ calls' = <<>> /\ next' = Continue
              /\ state' = state /\ history' = history /\ context' = context]_vars

\* Tab on a buffer that is not empty, answered by the default completion.
C12_Witness ==
    /\ pc = "loop"
    /\ Len(calls) = 1 /\ calls[1].op = "completion"
    /\ calls[1].res = default_completion
    /\ state.cmd # EmptyString /\ state = Idle(calls[1].arg, Len(calls[1].arg), Some(<<>>))

\* C13: Ctrl-L, in Idle or in Running, empties the history and leaves the
\* state as it is, calls no operation of the executor and returns Continue;
\* pressed again it leaves the same state and the history empty.
C13_CtrlLClearsHistory ==
    [][KeyCtrlL =>
         /\ history' = <<>> /\ state' = state /\ context' = context
         /\ calls' = <<>> /\ next' = Continue /\ pc' = "loop"
         /\ \A r \in input(App(state', context', history', <<>>), CtrlL) :
               /\ r.app = App(state', context', <<>>, <<>>)
               /\ r.ret = Continue]_vars

\* Ctrl-L pressed while stdin lines were being collected.
C13_Witness ==
    /\ pc = "loop" /\ event = Some(CtrlL)
    /\ IsRunning(state) /\ state.stdin # <<>>
    /\ history = <<>> /\ calls = <<>> /\ next = Continue

\* C14: Up in Idle with a history that is not empty replaces the buffer by the
\* command text of the last entry and puts the cursor at its end; with an empty
\* history, or in Running, Up changes nothing. Up never modifies the history.
C14_UpRecallsLast ==
    [][KeyUp =>
         /\ history' = history /\ context' = context
         /\ calls' = <<>> /\ next' = Continue
         /\ IF IsIdle(state) /\ history # <<>>
            THEN /\ IsIdle(state')
                 /\ state'.cmd = history[Len(history)].command
                 /\ state'.cursor = Len(state'.cmd)
            ELSE state' = state]_vars

\* Up recalled the last of two commands that differ.
C14_Witness ==
    /\ pc = "loop" /\ event = Some(UpKey) /\ IsIdle(state)
    /\ Len(history) = 2 /\ history[1].command # history[2].command
    /\ state.cmd = history[2].command /\ state.cursor = Len(state.cmd)

\* C15: Ctrl-C or Ctrl-D in Idle ends the session with an empty message: the
\* input handler returns Exit(""), no operation of the executor is called, the
\* history and the context are unchanged, and the result of the driving loop,
\* which App::execute returns once the terminal is restored, is the empty
\* message.
C15_InterruptInIdleExits ==
    [][/\ (IsIdle(state) /\ KeyCtrlCD)
          => /\ next' = Exit(EmptyString) /\ calls' = <<>>
             /\ history' = history /\ context' = context
             /\ pc' = "restore" /\ response' = OkResponse(EmptyString)
       /\ (pc = "restore" /\ exitBy = "exit" /\ pc' = "done" /\ ~RestorationFailed')
          => response' = OkResponse(EmptyString)]_vars

\* The session left by Ctrl-C or Ctrl-D with a buffer and a history.
C15_Witness ==
    /\ pc = "done" /\ event \in {Some(CtrlC), Some(CtrlD)}
    /\ IsIdle(state) /\ state.cmd # EmptyString /\ history # <<>>
    /\ calls = <<>> /\ response = OkResponse(EmptyString)
    /\ term = CookedTerminal

\* C16: in every step the history stays as it is, gains exactly one entry at
\* its end (the Command output of a finalize), or is emptied as a whole (by
\* Ctrl-L or by a Clear directive); no entry is modified, moved or removed
\* singly.
C16_HistoryAppendOnly ==
    [][\/ history' = history
       \/ /\ history' = <<>>
          /\ \/ event' = Some(CtrlL)
             \/ \E k \in 1..Len(calls') : calls'[k].res = ActionClear
       \/ /\ Len(history') = Len(history) + 1
          /\ SubSeq(history', 1, Len(history)) = history
          /\ \E k \in 1..Len(calls') :
                calls'[k].res = ActionCommand(history'[Len(history')])]_vars

\* A finalize from Running appended a second entry to the history.
C16_Witness ==
    /\ pc = "loop" /\ event \in {Some(CtrlC), Some(CtrlD)}
    /\ Len(history) = 2 /\ history[1] # history[2]
    /\ Len(calls) = 1 /\ calls[1].res = ActionCommand(history[2])

\* A call of the executor that returned a failure.
Failed(c) ==
    \/ c.op = "completion" /\ ~c.res.ok
    \/ c.op = "execute" /\ c.res.tag = "Err"

\* C17: when completion() or execute() fails, the input handler returns that
\* failure and the history is as before the event; the call is not made again
\* and the driving loop is left: nothing is rendered or read any more, and the
\* failure is the result, which App::execute returns once the terminal is
\* restored.
C17_FailurePropagates ==
    [][/\ (pc = "read" /\ \E k \in 1..Len(calls') : Failed(calls'[k]))
          => /\ Failed(calls'[Len(calls')])
             /\ \A k \in 1..(Len(calls') - 1) : calls'[k].op # calls'[Len(calls')].op
             /\ next' = Err(calls'[Len(calls')].op)
             /\ history' = history
             /\ pc' = "restore" /\ exitBy' = "contract" /\ response' = next'
       /\ (pc = "restore" /\ exitBy = "contract")
          => /\ pc' \in {"restore", "done"}
             /\ UNCHANGED <<state, context, history, next, calls, event>>
             /\ ~RestorationFailed' => response' = response
       ]_vars

\* The session ended by a failure of execute on Enter, the terminal restored.
C17_Witness ==
    /\ pc = "done" /\ exitBy = "contract" /\ term = CookedTerminal
    /\ Len(calls) = 2 /\ calls[2].op = "execute" /\ calls[2].res = ActionErr
    /\ next = Err("execute") /\ response = next
    /\ history # <<>>

\* C18: a key event of kind Release is ignored whatever its code and modifiers
\* (Ctrl-L, Ctrl-C, Ctrl-D and Enter among them): the state, the history and
\* the context are unchanged, no operation of the executor is called and the
\* handler returns Continue.
C18_ReleaseIgnored ==
    [][KeyRelease =>
         /\ state' = state /\ history' = history /\ context' = context
         /\ calls' = <<>> /\ next' = Continue /\ pc' = "loop"]_vars

\* Ctrl-D released while stdin lines were being collected, with a history.
C18_Witness ==
    /\ pc = "loop" /\ event = Some(Released(CtrlD))
    /\ IsRunning(state) /\ state.stdin # <<>> /\ history # <<>>
    /\ calls = <<>> /\ next = Continue

\* C19: Left in Idle always discards the active completion set, also when the
\* cursor is at 0 already and does not move; Right in Idle never changes the
\* completion set.
C19_LeftAlwaysDropsComp ==
    [][/\ (IsIdle(state) /\ KeyLeft) => state'.comp = None
       /\ (IsIdle(state) /\ KeyRight) => state'.comp = state.comp]_vars

\* C19, amended: Left in Idle discards the active completion set when it moves
\* the cursor; with the cursor at 0 Left changes nothing, the completion set
\* included. Right in Idle never changes the completion set.
C19_LeftDropsCompWhenMoving ==
    [][/\ (IsIdle(state) /\ KeyLeft)
          => IF state.cursor > 0 THEN state'.comp = None ELSE state' = state
       /\ (IsIdle(state) /\ KeyRight) => state'.comp = state.comp]_vars

\* Left pressed on the empty buffer: the completion set is still active.
C19_Witness ==
    /\ pc = "loop" /\ event = Some(LeftKey)
    /\ IsIdle(state) /\ state.cursor = 0
    /\ state.comp # None /\ state.comp[1] # <<>>

\* The smaller and the larger of two numbers.
Min(a, b) == IF a <= b THEN a ELSE b

Max(a, b) == IF a >= b THEN a ELSE b

\* C20: Left in Idle sets the cursor to max(cursor - 1, 0) and Right in Idle to
\* min(cursor + 1, length(buffer)), both leaving the buffer unchanged; in
\* Running, Left and Right leave the whole state unchanged.
C20_CursorMovesClamped ==
    [][/\ (IsIdle(state) /\ KeyLeft)
          => /\ IsIdle(state') /\ state'.cmd = state.cmd
             /\ state'.cursor = Max(state.cursor - 1, 0)
       /\ (IsIdle(state) /\ KeyRight)
          => /\ IsIdle(state') /\ state'.cmd = state.cmd
             /\ state'.cursor = Min(state.cursor + 1, Len(state.cmd))
       /\ (IsRunning(state) /\ (KeyLeft \/ KeyRight)) => state' = state]_vars

\* Right moved the cursor from the start of a full buffer to its second byte.
C20_Witness ==
    /\ pc = "loop" /\ event = Some(RightKey)
    /\ IsIdle(state) /\ Len(state.cmd) = MaxLen /\ state.cursor = 1

\* C21: Backspace in Running removes the last character of the last stdin line
\* and drops that line only when this Backspace emptied it; a last line that
\* was empty already is not dropped, and with no line Backspace changes
\* nothing.
C21_BackspaceDropsEmptiedLine ==
    [][(IsRunning(state) /\ KeyBackspace)
       => LET stdin == state.stdin
              n == Len(stdin)
          IN IF n = 0 \/ stdin[n] = EmptyString THEN state' = state
             ELSE IF Len(stdin[n]) = 1
             THEN state' = Running(state.prep, SubSeq(stdin, 1, n - 1))
             ELSE state' = Running(state.prep,
                     [stdin EXCEPT ![n] = SubSeq(stdin[n], 1, Len(stdin[n]) - 1)])]_vars

\* C21, amended: Backspace in Running removes the last character of the last
\* stdin line, if it has one, and drops that line when it is empty afterwards,
\* whether this Backspace emptied it or it was empty already; with no line
\* Backspace changes nothing.
C21_BackspaceDropsEmptyLine ==
    [][(IsRunning(state) /\ KeyBackspace)
       => LET stdin == state.stdin
              n == Len(stdin)
          IN IF n = 0 THEN state' = state
             ELSE IF Len(stdin[n]) <= 1
             THEN state' = Running(state.prep, SubSeq(stdin, 1, n - 1))
             ELSE state' = Running(state.prep,
                     [stdin EXCEPT ![n] = SubSeq(stdin[n], 1, Len(stdin[n]) - 1)])]_vars

\* Backspace dropped the second stdin line and left the first, an empty one.
C21_Witness ==
    /\ pc = "loop" /\ event \in {Some(e) : e \in BackspaceEvents}
    /\ IsRunning(state) /\ state.stdin = <<EmptyString>>

\* C22: a printable character c, with no modifier or with Shift, in Idle gives
\* the buffer buffer[0..cursor] + c + buffer[cursor..] and the cursor
\* cursor + 1; in Running it is appended to the last stdin line, or makes a
\* first line of its own when there is none, the earlier lines and the prepare
\* unchanged.
C22_CharacterInserted ==
    [][\A ev \in CharEvents :
         /\ (IsIdle(state) /\ Iterate(ev))
            => /\ pc' # "panicked" /\ IsIdle(state')
               /\ state'.cmd = SubSeq(state.cmd, 1, state.cursor) \o ev.ch
                                 \o SubSeq(state.cmd, state.cursor + 1, Len(state.cmd))
               /\ state'.cursor = state.cursor + 1
         /\ (IsRunning(state) /\ Iterate(ev))
            => /\ pc' # "panicked" /\ IsRunning(state')
               /\ state'.prep = state.prep
               /\ LET n == Len(state.stdin)
                  IN IF n = 0 THEN state'.stdin = <<ev.ch>>
                     ELSE state'.stdin = SubSeq(state.stdin, 1, n - 1)
                                           \o <<state.stdin[n] \o ev.ch>>]_vars

\* C23: Backspace in Idle with the cursor past 0 removes exactly the character
\* at cursor - 1, moves the cursor back by one and drops the completion set;
\* at cursor 0 it changes nothing. So a character typed in Idle and then a
\* Backspace give back the buffer and the cursor there were: the character is
\* inserted, the frame is drawn, and Backspace undoes the insertion.
C23_BackspaceUndoesInsert ==
    [][/\ (IsIdle(state) /\ KeyBackspace)
          => /\ pc' # "panicked"
             /\ state' = IF state.cursor = 0 THEN state
                         ELSE Idle(SubSeq(state.cmd, 1, state.cursor - 1)
                                     \o SubSeq(state.cmd, state.cursor + 1,
                                               Len(state.cmd)),
                                   state.cursor - 1, None)
       /\ \A ev \in CharEvents :
            (IsIdle(state) /\ Iterate(ev))
            => /\ pc' # "panicked"
               /\ ~render_panics(state')
               /\ ~cursor_backspace_panics(state')
               /\ cursor_backspace(state').cmd = state.cmd
               /\ cursor_backspace(state').cursor = state.cursor]_vars

\* The number of lines of one history entry, and of the entries before the
\* k-th.
EntryLines(h) == 1 + Len(h.stdin) + Len(h.stdout) + Len(h.stderr)

RECURSIVE LinesBefore(_, _)
LinesBefore(hist, k) ==
    IF k <= 1 THEN 0 ELSE LinesBefore(hist, k - 1) + EntryLines(hist[k - 1])

\* The text of a line: its spans, one after the other.
RECURSIVE LineText(_)
LineText(line) ==
    IF line = <<>> THEN <<>> ELSE Head(line).content \o LineText(Tail(line))

\* C24: the frame shows the history entries in insertion order, each as
\* exactly 1 + |stdin| + |stdout| + |stderr| lines: the prompt and command
\* line, the stdin lines, the stdout lines, the stderr lines, each group in its
\* own order; every history line comes before the lines of the current state;
\* drawing the frame changes neither the state nor the history.
C24_HistoryRendered ==
    [][Draw =>
        /\ UNCHANGED <<state, context, history>>
        /\ LET lines == render(App(state, context, history, <<>>))
               total == LinesBefore(history, Len(history) + 1)
           IN /\ Len(lines) = total + Len(state_lines(App(state, context, history, <<>>)))
              /\ \A k \in 1..Len(history) :
                   LET h == history[k]
                       at == LinesBefore(history, k)
                   IN /\ LineText(lines[at + 1]) = h.prompt \o Blank \o h.command
                      /\ \A i \in 1..Len(h.stdin) :
                           lines[at + 1 + i] = <<Span(h.stdin[i], "raw")>>
                      /\ \A i \in 1..Len(h.stdout) :
                           lines[at + 1 + Len(h.stdin) + i] = <<Span(h.stdout[i], "raw")>>
                      /\ \A i \in 1..Len(h.stderr) :
                           lines[at + 1 + Len(h.stdin) + Len(h.stdout) + i]
                             = <<Span(h.stderr[i], "red")>>
              /\ LineText(lines[total + 1])
                   = prompt(context) \o Blank
                       \o (IF IsIdle(state) THEN state.cmd \o (IF state.cursor = Len(state.cmd) THEN Blank ELSE <<>>)
                           ELSE state.prep.command)]_vars

\* A frame was drawn with two entries in the history, the second with lines
\* of all three kinds.
C24_Witness ==
    /\ pc = "read" /\ Len(history) = 2
    /\ history[1].stdout # <<>> /\ history[2].stdin # <<>>
    /\ history[2].stdout # <<>> /\ history[2].stderr # <<>>

\* C25: the frame of an Idle state has the input line buffer[0..cursor], a
\* cursor indicator of one character (buffer[cursor] when the cursor is inside
\* the buffer, a blank otherwise), buffer[cursor+1..], and then one suggestion
\* line per candidate of the active completion set, in order, each the whole
\* buffer followed by the candidate. The frame of a Running state has the
\* prompt and command line and then one line per stdin line, in order. Stated
\* of every state the driving loop is about to draw.
C25_StateRendered ==
    pc = "loop" =>
        /\ ~render_panics(state)
        /\ LET lines == state_lines(App(state, context, history, <<>>))
           IN IF IsIdle(state)
              THEN LET cmd == state.cmd
                       cursor == state.cursor
                       comp == IF state.comp = None THEN <<>> ELSE state.comp[1]
                   IN /\ Len(lines) = 1 + Len(comp)
                      /\ Len(lines[1]) = 5
                      /\ lines[1][1].content = prompt(context)
                      /\ lines[1][2].content = Blank
                      /\ lines[1][3].content = SubSeq(cmd, 1, cursor)
                      /\ lines[1][4].content = IF cursor < Len(cmd)
                                               THEN <<cmd[cursor + 1]>> ELSE Blank
                      /\ lines[1][5].content = SubSeq(cmd, cursor + 2, Len(cmd))
                      /\ \A k \in 1..Len(comp) : LineText(lines[1 + k]) = cmd \o comp[k]
              ELSE /\ Len(lines) = 1 + Len(state.stdin)
                   /\ LineText(lines[1]) = prompt(context) \o Blank \o state.prep.command
                   /\ \A i \in 1..Len(state.stdin) :
                        LineText(lines[1 + i]) = state.stdin[i]

\* C26: one key event calls execute at most once, and only when it is Enter in
\* Idle on a buffer whose prepare does not require stdin, or Ctrl-C or Ctrl-D
\* in Running; every other key event, whatever else of the contract it calls,
\* leaves the context as it was.
C26_ExecuteOnlyOnFinalize ==
    [][pc = "read" =>
        LET ex == Executes(calls')
            ev == event'[1]
        IN /\ Len(ex) <= 1
           /\ Len(ex) = 1 =>
                /\ event' # None /\ ev.type = "Key" /\ ev.kind # "Release"
                /\ \/ /\ ev.code = "Enter" /\ ev.mods = "NONE"
                      /\ IsIdle(state) /\ ~prepare(state.cmd).stdin_required
                   \/ /\ ev.code = "Char" /\ ev.mods = "CONTROL"
                      /\ ev.ch \in {<<"c">>, <<"d">>}
                      /\ IsRunning(state)
           /\ Len(ex) = 0 => context' = context]_vars

\* Ctrl-D ended a collection: execute was called once and changed the context,
\* the prompt of the new history entry being that of the other context.
C26_Witness ==
    /\ pc = "loop" /\ event = Some(CtrlD)
    /\ Len(Executes(calls)) = 1
    /\ calls[1].arg.prompt # prompt(context)

\* C27: the command handed to execute is the buffer as it was when Enter was
\* pressed, on both paths: when execute is called at once, and when it is
\* called after the stdin collection that Ctrl-C or Ctrl-D ends, also when
\* prepare returned a command other than the buffer. The second path is stated
\* for the Ctrl-C or Ctrl-D that follows the Enter at once, when the prepare
\* call of the Enter, and with it the buffer, is still on record.
C27_ExecuteGetsBuffer ==
    [][/\ (IsIdle(state) /\ KeyEnter /\ Executes(calls') # <<>>)
          => Executes(calls')[1].arg.command = state.cmd
       /\ (/\ IsRunning(state)
           /\ Len(calls) = 1 /\ calls[1].op = "prepare"
           /\ KeyCtrlCD)
          => /\ Executes(calls') # <<>>
             /\ Executes(calls')[1].arg.command = calls[1].arg]_vars

\* C28: whenever a completion set is active in Idle, the empty set included,
\* the cursor is at the end of the buffer; this holds after every key event.
C28_CompletionAtEnd ==
    (IsIdle(state) /\ state.comp # None) => state.cursor = Len(state.cmd)

\* C29: in every state the driving loop draws, between two key events, a
\* Running state holds a Prepare that requires stdin and that prepare()
\* returned for the buffer of the Enter that started the collection; the
\* state becomes Running only by Enter in Idle. Stated step by step: the step
\* into Running is an Enter and installs prepare(buffer), a step within
\* Running keeps the Prepare, and no step leaves the loop in a Running state
\* whose Prepare does not require stdin.
C29_RunningRequiresStdin ==
    [][/\ (IsIdle(state) /\ IsRunning(state'))
          => KeyEnter /\ state'.prep = prepare(state.cmd)
       /\ (IsRunning(state) /\ IsRunning(state')) => state'.prep = state.prep
       /\ (pc' \in {"loop", "read"} /\ IsRunning(state'))
          => state'.prep.stdin_required]_vars

\* The loop is about to draw the collection that Enter has just started on
\* the buffer "c", with the Prepare of another command that prepare returned.
C29_Witness ==
    /\ pc = "loop" /\ IsRunning(state) /\ event = Some(EnterKey)
    /\ Len(calls) = 1 /\ calls[1].op = "prepare" /\ calls[1].arg = <<"c">>
    /\ state.prep = calls[1].res /\ state.prep.command # calls[1].arg

====
